---- MODULE Spec2Model ----
(***************************************************************************)
(* The PC-build recommender of main.py: the /recommend handler and the      *)
(* build search generate_best_build with its helpers.                       *)
(*                                                                          *)
(* A component is a record (a Python dict): a field the dict does not have  *)
(* is a field the record does not have.  Weights are held in tenths (0.3 is *)
(* 3), so a score is ten times the Python score and every comparison of two *)
(* scores, and of two value-for-money ratios (by cross-multiplication), is  *)
(* exact integer arithmetic.  The power check psu < total * 1.2 is          *)
(* 10 * psu < 12 * total.                                                   *)
(***************************************************************************)
EXTENDS Integers, Sequences, FiniteSets, TLC

VARIABLES catalog, request, pc, products, best_build, status, detail,
          recommendation, printed

vars == <<catalog, request, pc, products, best_build, status, detail,
          recommendation, printed>>

---------------------------------------------------------------------------
(* Python values *)

\* None as a return value: falsy, like the empty list.
None == <<>>

\* What dict.get(field) gives for an absent socket or ram_type.
NoneValue == "<None>"

\* dict.get(f, d)
Get(c, f, d) == IF f \in DOMAIN c THEN c[f] ELSE d

Max(a, b) == IF a >= b THEN a ELSE b

Min(a, b) == IF a <= b THEN a ELSE b

\* seq[:n]
Take(seq, n) == SubSeq(seq, 1, Min(n, Len(seq)))

\* [x for x in seq if x["type"] == t]
OfType(seq, t) == SelectSeq(seq, LAMBDA c : c.type = t)

---------------------------------------------------------------------------
(* Configuration *)

PURPOSE_WEIGHTS ==
    [gaming  |-> [CPU |-> 3, GPU |-> 7, RAM |-> 1, Storage |-> 1],
     editing |-> [CPU |-> 7, GPU |-> 2, RAM |-> 2, Storage |-> 2],
     general |-> [CPU |-> 5, GPU |-> 2, RAM |-> 2, Storage |-> 7]]

REQUIRED_CATEGORIES ==
    <<"CPU", "GPU", "Motherboard", "RAM", "Storage", "PSU", "Case">>

top_n == 5

extra_premium == 2

MinBudget == 500

MaxBudget == 10000

\* str.lower on the purposes a request carries.
lower(s) ==
    CASE s = "Gaming" -> "gaming"
      [] s = "EDITING" -> "editing"
      [] OTHER -> s

\* table.get(purpose.lower(), table["general"])
WeightsOf(table, purpose) ==
    IF lower(purpose) \in DOMAIN table THEN table[lower(purpose)]
    ELSE table["general"]

---------------------------------------------------------------------------
(* is_compatible *)

\* The index of next((c for c in build if c["type"] == t), None); 0 for None.
FirstIndexOfType(build, t) ==
    LET idx == {i \in 1..Len(build) : build[i].type = t}
    IN  IF idx = {} THEN 0 ELSE CHOOSE i \in idx : \A j \in idx : i <= j

\* As SocketMismatch, but a socket absent on one side matches anything.
SocketMismatch_AbsentMatches(cpu, motherboard) ==
    /\ "socket" \in DOMAIN cpu
    /\ "socket" \in DOMAIN motherboard
    /\ cpu.socket # motherboard.socket

SocketMismatch(cpu, motherboard) ==
    Get(cpu, "socket", NoneValue) # Get(motherboard, "socket", NoneValue)

RamMismatch(ram, motherboard) ==
    Get(ram, "ram_type", NoneValue) # Get(motherboard, "ram_type", NoneValue)

is_compatible(build) ==
    LET cpu == FirstIndexOfType(build, "CPU")
        motherboard == FirstIndexOfType(build, "Motherboard")
        ram == FirstIndexOfType(build, "RAM")
        psu == FirstIndexOfType(build, "PSU")
    IN  IF cpu = 0 \/ motherboard = 0 \/ ram = 0 \/ psu = 0 THEN FALSE
        ELSE IF SocketMismatch(build[cpu], build[motherboard]) THEN FALSE
        ELSE IF RamMismatch(build[ram], build[motherboard]) THEN FALSE
        ELSE TRUE

---------------------------------------------------------------------------
(* score_build, in tenths *)

RECURSIVE ScoreFrom(_, _, _)
ScoreFrom(build, weights, i) ==
    IF i > Len(build) THEN 0
    ELSE Get(build[i], "performance_score", 0) * Get(weights, build[i].type, 0)
         + ScoreFrom(build, weights, i + 1)

score_build(table, build, purpose) ==
    ScoreFrom(build, WeightsOf(table, purpose), 1)

---------------------------------------------------------------------------
(* The candidate reduction of generate_best_build *)

\* key(a) > key(b) for the key (performance_score * weight) / max(price, 1)
ValueGreater(a, b, w) ==
    a.performance_score * w * Max(b.price, 1)
        > b.performance_score * w * Max(a.price, 1)

PriceGreater(a, b) == a.price > b.price

\* One step of a stable descending sort: x, which came after every element
\* of the sorted s, goes before the first of the elements it is strictly
\* greater than, whose positions are lower_ones.
InsertDesc(s, x, lower_ones) ==
    LET at == IF lower_ones = {} THEN Len(s) + 1
              ELSE CHOOSE i \in lower_ones : \A j \in lower_ones : i <= j
    IN  SubSeq(s, 1, at - 1) \o <<x>> \o SubSeq(s, at, Len(s))

\* sorted(components, key=value per pound, reverse=True): stable, descending;
\* n is the length of the prefix sorted so far.
RECURSIVE SortedByValue(_, _, _)
SortedByValue(seq, n, w) ==
    IF n = 0 THEN <<>>
    ELSE LET s == SortedByValue(seq, n - 1, w)
         IN  InsertDesc(s, seq[n],
                 {i \in 1..Len(s) : ValueGreater(seq[n], s[i], w)})

\* sorted(components, key=price, reverse=True): stable, descending.
RECURSIVE SortedByPrice(_, _)
SortedByPrice(seq, n) ==
    IF n = 0 THEN <<>>
    ELSE LET s == SortedByPrice(seq, n - 1)
         IN  InsertDesc(s, seq[n],
                 {i \in 1..Len(s) : PriceGreater(seq[n], s[i])})

\* As value_sorted, keeping the best one only.
value_sorted_TopOne(components, w) ==
    Take(SortedByValue(components, Len(components), w), 1)

value_sorted(components, w) ==
    Take(SortedByValue(components, Len(components), w), top_n)

\* As high_price_sorted, keeping the dearest three.
high_price_sorted_TopThree(components, budget) ==
    LET affordable == SelectSeq(components, LAMBDA c : c.price <= budget)
    IN  Take(SortedByPrice(affordable, Len(affordable)), 3)

high_price_sorted(components, budget) ==
    LET affordable == SelectSeq(components, LAMBDA c : c.price <= budget)
    IN  Take(SortedByPrice(affordable, Len(affordable)), extra_premium)

\* list({c["name"]: c for c in seq}.values()): a key keeps the place of its
\* first entry and the value of its last.
DictValues(seq) ==
    LET firsts == SelectSeq([i \in 1..Len(seq) |-> i],
                    LAMBDA i : \A j \in 1..(i - 1) : seq[j].name # seq[i].name)
        last(n) == CHOOSE i \in 1..Len(seq) :
                      /\ seq[i].name = n
                      /\ \A j \in (i + 1)..Len(seq) : seq[j].name # n
    IN  [k \in 1..Len(firsts) |-> seq[last(seq[firsts[k]].name)]]

limited_of(components, w, budget) ==
    DictValues(value_sorted(components, w) \o high_price_sorted(components, budget))

\* limited, as the sequence of the candidate lists in category order
limited(table, products_, budget, purpose) ==
    [k \in 1..Len(REQUIRED_CATEGORIES) |->
        limited_of(OfType(products_, REQUIRED_CATEGORIES[k]),
                   Get(WeightsOf(table, purpose), REQUIRED_CATEGORIES[k], 0),
                   budget)]

---------------------------------------------------------------------------
(* The search of generate_best_build *)

\* itertools.product(*lists): the last list varies fastest.
RECURSIVE Product(_)
Product(lists) ==
    IF Len(lists) = 0 THEN << <<>> >>
    ELSE LET rest == Product(Tail(lists))
             first == lists[1]
             n == Len(rest)
         IN  [k \in 1..(Len(first) * n) |->
                <<first[((k - 1) \div n) + 1]>> \o rest[((k - 1) % n) + 1]]

RECURSIVE WattageFrom(_, _)
WattageFrom(build, i) ==
    IF i > Len(build) THEN 0
    ELSE (IF build[i].type # "PSU" THEN Get(build[i], "wattage", 0) ELSE 0)
         + WattageFrom(build, i + 1)

total_wattage(build) == WattageFrom(build, 1)

\* As Underpowered, without the 20% margin.
Underpowered_NoMargin(build) ==
    LET psu == FirstIndexOfType(build, "PSU")
    IN  psu # 0 /\ 10 * Get(build[psu], "wattage", 0) < 10 * total_wattage(build)

Underpowered(build) ==
    LET psu == FirstIndexOfType(build, "PSU")
    IN  psu # 0 /\ 10 * Get(build[psu], "wattage", 0) < 12 * total_wattage(build)

RECURSIVE PriceFrom(_, _)
PriceFrom(build, i) ==
    IF i > Len(build) THEN 0 ELSE build[i].price + PriceFrom(build, i + 1)

total_price(build) == PriceFrom(build, 1)

\* As OverBudget, the last component of the build left out of the sum.
OverBudget_LastLeftOut(build, budget) ==
    total_price(build) - build[Len(build)].price > budget

OverBudget(build, budget) == total_price(build) > budget

\* As Replaces, without the tie-break on the price.
Replaces_NoTieBreak(score, price, best) == score > best.best_score

Replaces(score, price, best) ==
    score > best.best_score
        \/ (score = best.best_score /\ price > best.best_price)

\* One iteration of the loop over the combinations.
Consider(table, build, budget, purpose, best) ==
    IF ~is_compatible(build) THEN best
    ELSE IF Underpowered(build) THEN best
    ELSE IF OverBudget(build, budget) THEN best
    ELSE IF Replaces(score_build(table, build, purpose), total_price(build), best)
         THEN [best_score |-> score_build(table, build, purpose),
               best_price |-> total_price(build),
               best_build |-> build]
         ELSE best

\* As SearchFrom, the loop ending one combination early.
RECURSIVE SearchFrom_SkipsLast(_, _, _, _, _, _)
SearchFrom_SkipsLast(table, combos, budget, purpose, i, best) ==
    IF i >= Len(combos) THEN best
    ELSE SearchFrom_SkipsLast(table, combos, budget, purpose, i + 1,
                              Consider(table, combos[i], budget, purpose, best))

RECURSIVE SearchFrom(_, _, _, _, _, _)
SearchFrom(table, combos, budget, purpose, i, best) ==
    IF i > Len(combos) THEN best
    ELSE SearchFrom(table, combos, budget, purpose, i + 1,
                    Consider(table, combos[i], budget, purpose, best))

InitialBest == [best_score |-> -1, best_price |-> 0, best_build |-> None]

---------------------------------------------------------------------------
(* generate_best_build: what it returns, prints and raises *)

MissingCategories(products_) ==
    SelectSeq(REQUIRED_CATEGORIES, LAMBDA cat : OfType(products_, cat) = <<>>)

\* x["performance_score"] in the value sort raises KeyError.
RaisesKeyError(products_) ==
    \E i \in 1..Len(products_) :
        /\ \E k \in 1..Len(REQUIRED_CATEGORIES) :
              products_[i].type = REQUIRED_CATEGORIES[k]
        /\ "performance_score" \notin DOMAIN products_[i]

generate_with(table, products_, budget, purpose) ==
    IF MissingCategories(products_) # <<>>
    THEN [ret |-> None, raised |-> FALSE,
          out |-> <<"Missing category: " \o MissingCategories(products_)[1]>>]
    ELSE IF RaisesKeyError(products_)
    THEN [ret |-> None, raised |-> TRUE, out |-> <<>>]
    ELSE LET found == SearchFrom(table,
                          Product(limited(table, products_, budget, purpose)),
                          budget, purpose, 1, InitialBest).best_build
         IN  IF found = None
             THEN [ret |-> None, raised |-> FALSE,
                   out |-> <<"No compatible build found.">>]
             ELSE [ret |-> found, raised |-> FALSE, out |-> <<>>]

generate_best_build(products_, budget, purpose, include_os, peripherals) ==
    generate_with(PURPOSE_WEIGHTS, products_, budget, purpose)

---------------------------------------------------------------------------
(* format_build *)

format_build(build) ==
    [lines |-> [i \in 1..Len(build) |->
                  <<build[i].type, build[i].name, build[i].price>>],
     total |-> total_price(build)]

NoRecommendation == [lines |-> <<>>, total |-> 0]

---------------------------------------------------------------------------
(* The /recommend handler, get_recommendations, one action per step *)

Say(msg) == printed' = Append(printed, msg)

\* As BudgetOutOfRange, without the upper limit.
BudgetOutOfRange_NoUpper(budget) == budget < MinBudget

BudgetOutOfRange(budget) == budget < MinBudget \/ budget > MaxBudget

\* HTTPException(status_code=404, detail="No compatible build found or missing category.")
NoBuildResponse ==
    [status |-> 404, detail |-> "No compatible build found or missing category."]

Raise(code, why) ==
    /\ status' = code
    /\ detail' = why
    /\ pc' = "done"

\* if request.budget < 500 or request.budget > 10000: raise HTTPException(400)
RejectBudget ==
    /\ pc = "start"
    /\ BudgetOutOfRange(request.budget)
    /\ Raise(400, "Budget must be between 500 and 10,000")
    /\ UNCHANGED <<catalog, request, products, best_build, recommendation, printed>>

\* products = list(collection.find({"price": {"$lte": request.budget}}))
FindProducts ==
    /\ pc = "start"
    /\ ~BudgetOutOfRange(request.budget)
    /\ products' = SelectSeq(catalog, LAMBDA c : c.price <= request.budget)
    /\ Say("Loaded products")
    /\ pc' = "loaded"
    /\ UNCHANGED <<catalog, request, best_build, status, detail, recommendation>>

\* if not products: raise HTTPException(404), re-raised by the handler
NoProducts ==
    /\ pc = "loaded"
    /\ products = <<>>
    /\ Raise(404, "No products found within budget")
    /\ Say("HTTP Exception: No products found within budget")
    /\ UNCHANGED <<catalog, request, products, best_build, recommendation>>

\* best_build = generate_best_build(...), returning
Generate ==
    /\ pc = "loaded"
    /\ products # <<>>
    /\ LET r == generate_best_build(products, request.budget, request.purpose,
                                    request.include_os, request.peripherals)
       IN  /\ ~r.raised
           /\ best_build' = r.ret
           /\ printed' = printed \o r.out \o <<"DEBUG: include_os", "DEBUG: peripherals">>
    /\ pc' = "generated"
    /\ UNCHANGED <<catalog, request, products, status, detail, recommendation>>

\* generate_best_build raises; except Exception: raise HTTPException(500)
GenerateRaises ==
    /\ pc = "loaded"
    /\ products # <<>>
    /\ generate_best_build(products, request.budget, request.purpose,
                           request.include_os, request.peripherals).raised
    /\ Raise(500, "'performance_score'")
    /\ Say("ERROR: 'performance_score'")
    /\ UNCHANGED <<catalog, request, products, best_build, recommendation>>

\* if not best_build: raise HTTPException(404)
NoBuild ==
    /\ pc = "generated"
    /\ best_build = None
    /\ Raise(NoBuildResponse.status, NoBuildResponse.detail)
    /\ Say("HTTP Exception: " \o NoBuildResponse.detail)
    /\ UNCHANGED <<catalog, request, products, best_build, recommendation>>

\* call_openai_description returns; the response is built with format_build
Respond ==
    /\ pc = "generated"
    /\ best_build # None
    /\ recommendation' = format_build(best_build)
    /\ status' = 200
    /\ pc' = "done"
    /\ UNCHANGED <<catalog, request, products, best_build, detail, printed>>

\* call_openai_description raises; except Exception: raise HTTPException(500)
DescriptionFails ==
    /\ pc = "generated"
    /\ best_build # None
    /\ Raise(500, "openai error")
    /\ Say("ERROR: openai error")
    /\ UNCHANGED <<catalog, request, products, best_build, recommendation>>

Next ==
    \/ RejectBudget
    \/ FindProducts
    \/ NoProducts
    \/ Generate
    \/ GenerateRaises
    \/ NoBuild
    \/ Respond
    \/ DescriptionFails

---------------------------------------------------------------------------
(* The catalogs and requests the handler is run on *)

\* The one-per-category catalog: total price 1010, the others draw 300 W.
Base ==
    << [type |-> "CPU", name |-> "cpu", price |-> 200, performance_score |-> 50,
        socket |-> "AM4", wattage |-> 100],
       [type |-> "GPU", name |-> "gpu", price |-> 300, performance_score |-> 60,
        wattage |-> 150],
       [type |-> "Motherboard", name |-> "mb", price |-> 100, performance_score |-> 40,
        socket |-> "AM4", ram_type |-> "DDR4", wattage |-> 30],
       [type |-> "RAM", name |-> "ram", price |-> 80, performance_score |-> 30,
        ram_type |-> "DDR4", wattage |-> 10],
       [type |-> "Storage", name |-> "ssd", price |-> 80, performance_score |-> 30,
        wattage |-> 10],
       [type |-> "PSU", name |-> "psu", price |-> 100, performance_score |-> 40,
        wattage |-> 600],
       [type |-> "Case", name |-> "case", price |-> 150, performance_score |-> 20] >>

\* Base with every performance_score 0: every build of it scores 0.
Idle == [i \in 1..Len(Base) |-> [Base[i] EXCEPT !.performance_score = 0]]

\* What a catalog starts from; the empty collection is one.
Bases == {Base, Idle, <<>>}

\* A record with no performance_score.
Malformed ==
    [type |-> "CPU", name |-> "cpuNoPerf", price |-> 200, socket |-> "AM4",
     wattage |-> 100]

\* Components a catalog may hold besides.
Extras ==
    << [type |-> "CPU", name |-> "cpuLGA", price |-> 300, performance_score |-> 90,
        socket |-> "LGA1200", wattage |-> 100],
       [type |-> "CPU", name |-> "cpuTie", price |-> 250, performance_score |-> 50,
        socket |-> "AM4", wattage |-> 100],
       [type |-> "CPU", name |-> "cpuNoSocket", price |-> 150, performance_score |-> 70,
        wattage |-> 100],
       Malformed,
       [type |-> "GPU", name |-> "gpuHot", price |-> 300, performance_score |-> 100,
        wattage |-> 400],
       [type |-> "GPU", name |-> "gpuLux", price |-> 2000, performance_score |-> 180,
        wattage |-> 200],
       [type |-> "Motherboard", name |-> "mbLGA", price |-> 120, performance_score |-> 70,
        socket |-> "LGA1200", ram_type |-> "DDR4", wattage |-> 30],
       [type |-> "Motherboard", name |-> "mbDDR5", price |-> 100, performance_score |-> 40,
        socket |-> "AM4", ram_type |-> "DDR5", wattage |-> 30],
       [type |-> "Motherboard", name |-> "mbNoSocket", price |-> 90, performance_score |-> 10,
        ram_type |-> "DDR4", wattage |-> 30],
       [type |-> "RAM", name |-> "ramDDR5", price |-> 100, performance_score |-> 60,
        ram_type |-> "DDR5", wattage |-> 10],
       [type |-> "Storage", name |-> "ssdFree", price |-> 0, performance_score |-> 10,
        wattage |-> 10],
       [type |-> "PSU", name |-> "psuBig", price |-> 150, performance_score |-> 80,
        wattage |-> 750],
       [type |-> "PSU", name |-> "psuNoWatt", price |-> 50, performance_score |-> 10],
       [type |-> "Case", name |-> "caseTwin", price |-> 150, performance_score |-> 20],
       [type |-> "Case", name |-> "casePricey", price |-> 400, performance_score |-> 70],
       [type |-> "Operating System", name |-> "os", price |-> 100],
       [type |-> "keyboard", name |-> "kb", price |-> 50] >>

\* A catalog differs from what it starts from in at most MaxEdits components.
MaxEdits == 2

\* An edit: 1..7 removes that component of the base, 8.. adds that one of Extras.
Edits == 1..(Len(Base) + Len(Extras))

EditSets ==
    {{f[i] : i \in 1..MaxEdits} \ {0} : f \in [1..MaxEdits -> {0} \cup Edits]}

Edited(from, es, extras_first) ==
    LET kept == SelectSeq([i \in 1..Len(from) |-> i], LAMBDA i : i \notin es)
        added == SelectSeq([i \in 1..Len(Extras) |-> i],
                           LAMBDA i : (Len(Base) + i) \in es)
        base == [k \in 1..Len(kept) |-> from[kept[k]]]
        more == [k \in 1..Len(added) |-> Extras[added[k]]]
    IN  IF extras_first THEN more \o base ELSE base \o more

Catalogs == {Edited(from, es, first) : from \in Bases, es \in EditSets, first \in BOOLEAN}

Budgets == {300, 1200, 10001}

Purposes == {"Gaming", "editing", "office"}

\* The requests: every budget and purpose, and the request of test_successful_build.
Requests ==
    [budget : Budgets, purpose : Purposes, include_os : {FALSE}, peripherals : {<<>>}]
    \cup {[budget |-> 1200, purpose |-> "gaming", include_os |-> TRUE,
           peripherals |-> <<"keyboard", "mouse">>]}

Init ==
    /\ catalog \in Catalogs
    /\ request \in Requests
    /\ pc = "start"
    /\ products = <<>>
    /\ best_build = None
    /\ status = 0
    /\ detail = ""
    /\ recommendation = NoRecommendation
    /\ printed = <<>>

Spec == Init /\ [][Next]_vars

---------------------------------------------------------------------------
(* Catalogs with one crowded category: Base or nothing, with or without the  *)
(* malformed record, and up to MaxFill more components of one category, each *)
(* of one of FillKinds                                                       *)

MaxFill == 7

FillCategories == {"Storage", "Case"}

\* cheap and good for its price; dear and poor
FillKinds ==
    << [price |-> 10, performance_score |-> 5],
       [price |-> 1400, performance_score |-> 1] >>

FillNames == <<"f1", "f2", "f3", "f4", "f5", "f6", "f7", "f8", "f9", "f10">>

Filler(cat, i, kind) ==
    [type |-> cat, name |-> FillNames[i], price |-> kind.price,
     performance_score |-> kind.performance_score]

Filled(from, cat, ks) ==
    from \o [i \in 1..Len(ks) |-> Filler(cat, i, FillKinds[ks[i]])]

WideCatalogs ==
    {Filled(from \o tail, cat, ks) :
        from \in {Base, <<>>}, tail \in {<<>>, <<Malformed>>},
        cat \in FillCategories,
        ks \in UNION {[1..n -> 1..Len(FillKinds)] : n \in 0..MaxFill}}

WideRequests ==
    [budget : {300, 1500, 3000}, purpose : {"Gaming", "office"},
     include_os : {FALSE}, peripherals : {<<>>}]

InitWide ==
    /\ catalog \in WideCatalogs
    /\ request \in WideRequests
    /\ pc = "start"
    /\ products = <<>>
    /\ best_build = None
    /\ status = 0
    /\ detail = ""
    /\ recommendation = NoRecommendation
    /\ printed = <<>>

SpecWide == InitWide /\ [][Next]_vars


---------------------------------------------------------------------------
(* What the properties are stated with *)

Range(seq) == {seq[i] : i \in 1..Len(seq)}

Required == Range(REQUIRED_CATEGORIES)

RECURSIVE SumSeq(_)
SumSeq(ns) == IF ns = <<>> THEN 0 ELSE Head(ns) + SumSeq(Tail(ns))

\* generate_best_build has returned to the handler; best_build is what it returned.
Returned == pc = "generated"

BuildReturned == Returned /\ best_build # None

\* The component of category t in a build.
Pick(build, t) == CHOOSE c \in Range(build) : c.type = t

Watts(c) == IF "wattage" \in DOMAIN c THEN c.wattage ELSE 0

Perf(c) == IF "performance_score" \in DOMAIN c THEN c.performance_score ELSE 0

Draw(build) ==
    SumSeq([i \in 1..Len(build) |->
              IF build[i].type = "PSU" THEN 0 ELSE Watts(build[i])])

Cost(build) == SumSeq([i \in 1..Len(build) |-> build[i].price])

SameField(a, b, f) ==
    /\ (f \in DOMAIN a) = (f \in DOMAIN b)
    /\ (f \in DOMAIN a) => a[f] = b[f]

\* The three predicates a combination must pass.
Passes(build) ==
    /\ SameField(Pick(build, "CPU"), Pick(build, "Motherboard"), "socket")
    /\ SameField(Pick(build, "RAM"), Pick(build, "Motherboard"), "ram_type")
    /\ 10 * Watts(Pick(build, "PSU")) >= 12 * Draw(build)
    /\ Cost(build) <= request.budget

\* Ten times the purpose-weighted score, from the weight table itself.
Score(build) ==
    LET key == IF lower(request.purpose) \in DOMAIN PURPOSE_WEIGHTS
               THEN lower(request.purpose) ELSE "general"
        w(t) == IF t \in DOMAIN PURPOSE_WEIGHTS[key]
                THEN PURPOSE_WEIGHTS[key][t] ELSE 0
    IN  SumSeq([i \in 1..Len(build) |-> Perf(build[i]) * w(build[i].type)])

---------------------------------------------------------------------------
(* C1 *)

\* C1: whenever generate_best_build returns a build, the build's CPU socket
\* equals its Motherboard socket and its RAM ram_type equals its Motherboard
\* ram_type; a field absent on both sides counts as equal.
C1_SocketAndRamTypeAgree ==
    BuildReturned =>
        /\ SameField(Pick(best_build, "CPU"), Pick(best_build, "Motherboard"), "socket")
        /\ SameField(Pick(best_build, "RAM"), Pick(best_build, "Motherboard"), "ram_type")

\* A build is returned from products that also hold a CPU of another socket
\* and a RAM of another ram_type than the chosen Motherboard's.
C1_Witness ==
    /\ BuildReturned
    /\ \E c \in Range(products) :
          c.type = "CPU" /\ ~SameField(c, Pick(best_build, "Motherboard"), "socket")
    /\ \E c \in Range(products) :
          c.type = "RAM" /\ ~SameField(c, Pick(best_build, "Motherboard"), "ram_type")

---------------------------------------------------------------------------
(* C2 *)

\* C2: whenever generate_best_build returns a build, ten times the PSU's
\* wattage is at least twelve times the summed wattage of the other
\* components, an absent wattage counting as 0.
C2_PsuHeadroom ==
    BuildReturned => 10 * Watts(Pick(best_build, "PSU")) >= 12 * Draw(best_build)

\* A build is returned that draws power, from products holding a PSU too
\* weak for it.
C2_Witness ==
    /\ BuildReturned
    /\ Draw(best_build) > 0
    /\ \E c \in Range(products) :
          c.type = "PSU" /\ 10 * Watts(c) < 12 * Draw(best_build)

---------------------------------------------------------------------------
(* C3 *)

\* C3: whenever generate_best_build returns a build, the summed price of its
\* components does not exceed the requested budget.
C3_WithinBudget ==
    BuildReturned => Cost(best_build) <= request.budget

\* A build is returned from products holding a component that would take the
\* build over the budget if it replaced the chosen one of its category.
C3_Witness ==
    /\ BuildReturned
    /\ \E c \in Range(products) :
          /\ c.type \in Required
          /\ Cost(best_build) - Pick(best_build, c.type).price + c.price
                > request.budget

---------------------------------------------------------------------------
(* C4 *)

OptionalIn(seq, t) == \E c \in Range(seq) : c.type = t

\* C4: the returned build holds exactly one component per required category
\* and exactly the requested optional ones: the Operating System component
\* when include_os is set and the catalog has one, a component of each
\* requested peripheral category the catalog has, and no optional component
\* when none is requested.
C4_RequestedOptionals ==
    BuildReturned =>
        /\ \A t \in Required :
              Cardinality({i \in 1..Len(best_build) : best_build[i].type = t}) = 1
        /\ (request.include_os /\ OptionalIn(products, "Operating System"))
              => OptionalIn(best_build, "Operating System")
        /\ \A k \in 1..Len(request.peripherals) :
              OptionalIn(products, request.peripherals[k])
                 => OptionalIn(best_build, request.peripherals[k])
        /\ (~request.include_os /\ request.peripherals = <<>>)
              => \A c \in Range(best_build) : c.type \in Required

---------------------------------------------------------------------------
(* C6 *)

\* The combinations generate_best_build enumerates, in its order.
Combos ==
    Product(limited(PURPOSE_WEIGHTS, products, request.budget, request.purpose))

\* What the selection compares: whether combination b passes, its score, its price.
Rated(combos) ==
    [i \in 1..Len(combos) |->
        [ok |-> Passes(combos[i]), score |-> Score(combos[i]),
         cost |-> Cost(combos[i])]]

\* C6: among the combinations of the candidate lists that pass the three
\* predicates, the returned build has the highest score, among those of that
\* score the highest total price, and among those equal in both it is the
\* first enumerated; with no passing combination nothing is returned, and a
\* passing combination of score 0 is returned like any other.
C6_BestThenDearestThenFirst ==
    (Returned /\ \A t \in Required : OptionalIn(products, t)) =>
        LET combos == Combos
            r == Rated(combos)
            passing == {i \in 1..Len(combos) : r[i].ok}
        IN  IF passing = {} THEN best_build = None
            ELSE \E i \in passing :
                    /\ best_build = combos[i]
                    /\ \A j \in passing :
                          /\ r[j].score <= r[i].score
                          /\ r[j].score = r[i].score => r[j].cost <= r[i].cost
                          /\ (r[j].score = r[i].score /\ r[j].cost = r[i].cost)
                                => i <= j

\* A build of score 0 is returned that ties in score with a cheaper passing
\* combination and ties in score and price with a later one.
C6_Witness ==
    /\ BuildReturned
    /\ Score(best_build) = 0
    /\ LET combos == Combos
           r == Rated(combos)
           passing == {i \in 1..Len(combos) : r[i].ok}
       IN  /\ \E j \in passing :
                 r[j].score = Score(best_build) /\ r[j].cost < Cost(best_build)
           /\ \E j \in passing :
                 /\ combos[j] # best_build
                 /\ r[j].score = Score(best_build)
                 /\ r[j].cost = Cost(best_build)

---------------------------------------------------------------------------
(* C7 *)

MissingCategory == \E t \in Required : ~OptionalIn(products, t)

\* Some component of a required category has no performance_score.
PerfLess ==
    \E c \in Range(products) :
        c.type \in Required /\ "performance_score" \notin DOMAIN c

\* Every choice of one component per required category, from all of products.
AllChoices ==
    Product([k \in 1..Len(REQUIRED_CATEGORIES) |->
               SelectSeq(products, LAMBDA c : c.type = REQUIRED_CATEGORIES[k])])

Unsatisfiable ==
    ~MissingCategory /\ \A b \in Range(AllChoices) : ~Passes(b)

InvalidBudget == request.budget < 500 \/ request.budget > 10000

\* Base with its CPU replaced by the LGA1200 one: every required category is
\* there and no combination is compatible.
SocketClash == Edited(Base, {1, Len(Base) + 1}, FALSE)

\* C7 as claimed: what generate_best_build returns for a catalog missing a
\* required category differs from what it returns for a catalog with every
\* category and no passing combination, and the handler answers the two, and
\* an invalid budget, with pairwise distinct statuses.
C7_FailuresDistinguishable ==
    /\ (pc = "done" /\ InvalidBudget)
          => <<status, detail>> # <<NoBuildResponse.status, NoBuildResponse.detail>>
    /\ (pc = "done" /\ ~InvalidBudget /\ products # <<>> /\ MissingCategory)
          => /\ best_build # generate_best_build(SocketClash, request.budget,
                                 request.purpose, request.include_os,
                                 request.peripherals).ret
             /\ <<status, detail>> # <<NoBuildResponse.status, NoBuildResponse.detail>>

\* C7 as amended: an invalid budget, and only that, is answered 400; a
\* missing category and an unsatisfiable search both make generate_best_build
\* return None and are both answered 404 with the same detail, and differ only
\* in the line generate_best_build prints; with every category present, a
\* component without performance_score is answered 500.
C7_OnlyBudgetDistinguishable ==
    /\ pc = "done" => (InvalidBudget <=> status = 400)
    /\ (pc = "done" /\ ~InvalidBudget /\ products # <<>>) =>
          /\ MissingCategory =>
                /\ best_build = None
                /\ status = 404
                /\ detail = "No compatible build found or missing category."
                /\ \E t \in Required : "Missing category: " \o t \in Range(printed)
                /\ "No compatible build found." \notin Range(printed)
          /\ (~MissingCategory /\ PerfLess) =>
                status = 500 /\ detail = "'performance_score'"
          /\ (Unsatisfiable /\ ~PerfLess) =>
                /\ best_build = None
                /\ status = 404
                /\ detail = "No compatible build found or missing category."
                /\ "No compatible build found." \in Range(printed)
                /\ \A t \in Required : "Missing category: " \o t \notin Range(printed)

\* A request is answered 404 for a catalog with every required category and
\* no passing combination.
C7_Witness ==
    pc = "done" /\ status = 404 /\ products # <<>> /\ Unsatisfiable /\ ~PerfLess

---------------------------------------------------------------------------
(* C8 *)

\* A component with an absent performance_score or wattage set to 0.
Defaulted(c) ==
    [f \in DOMAIN c \cup {"performance_score", "wattage"} |->
        IF f \in DOMAIN c THEN c[f] ELSE 0]

NamesOf(build) == [i \in 1..Len(build) |-> build[i].name]

\* C8: generate_best_build never fails on a component without
\* performance_score or wattage, and its outcome is the one for the catalog
\* with each absent performance_score and wattage replaced by 0.
C8_AbsentFieldsDefault ==
    (pc = "loaded" /\ products # <<>>) =>
        LET got == generate_best_build(products, request.budget, request.purpose,
                                       request.include_os, request.peripherals)
            filled == generate_best_build(
                          [i \in 1..Len(products) |-> Defaulted(products[i])],
                          request.budget, request.purpose,
                          request.include_os, request.peripherals)
        IN  /\ ~got.raised
            /\ NamesOf(got.ret) = NamesOf(filled.ret)

---------------------------------------------------------------------------
(* C5 *)

CountOf(t) == Cardinality({i \in 1..Len(products) : products[i].type = t})

---------------------------------------------------------------------------
(* C9 *)

\* By how many tenths a weight is raised.
WeightRaises == {1, 3}

\* PURPOSE_WEIGHTS with the weight of category t in the mapping the request's
\* purpose selects raised by d; an absent weight is raised from 0.
RaisedWeights(t, d) ==
    LET key == IF lower(request.purpose) \in DOMAIN PURPOSE_WEIGHTS
               THEN lower(request.purpose) ELSE "general"
        old == PURPOSE_WEIGHTS[key]
    IN  [PURPOSE_WEIGHTS EXCEPT ![key] =
            [x \in DOMAIN old \cup {t} |->
                (IF x \in DOMAIN old THEN old[x] ELSE 0) + (IF x = t THEN d ELSE 0)]]

\* What generate_best_build returns for the same products and request under
\* the raised weights.
SecondRun(t, d) ==
    generate_with(RaisedWeights(t, d), products, request.budget, request.purpose).ret

\* C9 as claimed: when the weight of one required category is raised and all
\* else is the same, and both runs return a build, the component chosen for
\* that category in the second run has no lower performance_score than the
\* one chosen in the first.
C9_MonotonicWeighting ==
    BuildReturned =>
        \A t \in Required, d \in WeightRaises :
            LET second == SecondRun(t, d)
            IN  second # None =>
                   Perf(Pick(second, t)) >= Perf(Pick(best_build, t))

\* C9 as amended: the same, for a category with at most five components in
\* the catalog.
C9_MonotonicUpToFive ==
    BuildReturned =>
        \A t \in {u \in Required : CountOf(u) <= 5}, d \in WeightRaises :
            LET second == SecondRun(t, d)
            IN  second # None =>
                   Perf(Pick(second, t)) >= Perf(Pick(best_build, t))

\* Raising the weight of a category of up to five components changes the
\* component chosen for it to one of higher performance_score.
C9_Witness ==
    /\ BuildReturned
    /\ \E t \in {u \in Required : CountOf(u) <= 5}, d \in WeightRaises :
          LET second == SecondRun(t, d)
          IN  second # None /\ Perf(Pick(second, t)) > Perf(Pick(best_build, t))

---------------------------------------------------------------------------
(* C10 *)

\* The weight of category t under the request's purpose, from the table.
WeightFor(t) ==
    LET key == IF lower(request.purpose) \in DOMAIN PURPOSE_WEIGHTS
               THEN lower(request.purpose) ELSE "general"
    IN  IF t \in DOMAIN PURPOSE_WEIGHTS[key] THEN PURPOSE_WEIGHTS[key][t] ELSE 0

\* The candidate list of the k-th required category is the five best of the
\* category by value for money followed by those of the two dearest within
\* the budget that are not among them, ties going to the earlier in the
\* catalog: at most seven entries, of distinct names.
CandidatesAsClaimed(k, list) ==
    LET t == REQUIRED_CATEGORIES[k]
        comps == SelectSeq(products, LAMBDA c : c.type = t)
        n == Len(comps)
        value(i) == Perf(comps[i]) * WeightFor(t)
        floor(i) == IF comps[i].price > 1 THEN comps[i].price ELSE 1
        valueRank(i) ==
            1 + Cardinality({j \in 1..n :
                    \/ value(j) * floor(i) > value(i) * floor(j)
                    \/ value(j) * floor(i) = value(i) * floor(j) /\ j < i})
        within == {i \in 1..n : comps[i].price <= request.budget}
        priceRank(i) ==
            1 + Cardinality({j \in within :
                    \/ comps[j].price > comps[i].price
                    \/ comps[j].price = comps[i].price /\ j < i})
        byValue == {i \in 1..n : valueRank(i) <= 5}
        byPrice == {i \in within : priceRank(i) <= 2}
        place(i) == IF i \in byValue THEN valueRank(i) ELSE 5 + priceRank(i)
        at(c) == CHOOSE i \in 1..n : comps[i] = c
    IN  /\ Len(list) <= 7
        /\ \A p, q \in 1..Len(list) : p # q => list[p].name # list[q].name
        /\ Range(list) = {comps[i] : i \in byValue \cup byPrice}
        /\ \A p, q \in 1..Len(list) : p < q => place(at(list[p])) < place(at(list[q]))

\* C10: every candidate list is as claimed, and the combinations enumerated
\* are at most 7^7.
C10_CandidateLists ==
    (Returned /\ ~MissingCategory) =>
        LET lists == limited(PURPOSE_WEIGHTS, products, request.budget, request.purpose)
        IN  /\ \A k \in 1..Len(REQUIRED_CATEGORIES) : CandidatesAsClaimed(k, lists[k])
            /\ Len(Combos) <= 7 * 7 * 7 * 7 * 7 * 7 * 7

\* A category of more than seven components is cut to seven candidates.
C10_Witness ==
    /\ Returned
    /\ ~MissingCategory
    /\ \E k \in 1..Len(REQUIRED_CATEGORIES) :
          /\ CountOf(REQUIRED_CATEGORIES[k]) > 7
          /\ Len(limited(PURPOSE_WEIGHTS, products, request.budget,
                         request.purpose)[k]) = 7

====
